---- MODULE Spec2Model ----
(***************************************************************************)
(* Model of examples/cli-utils/src/colors.rs: the five ANSI formatting     *)
(* functions (red, green, blue, bold, reset) and the ColorString value     *)
(* type with its two methods, paint and reset.                             *)
(*                                                                         *)
(* A Rust String is modelled as the sequence of its bytes.  The escape     *)
(* character \x1b is byte 27, '[' is 91, 'm' is 109, the digits '0'..'4'   *)
(* are 48..52, '{' is 123 and '}' is 125.                                  *)
(***************************************************************************)
EXTENDS Integers, Sequences, FiniteSets, TLC

\* Longest source text explored.
MaxLen == 2

\* Bytes a source text is built from: ESC, '[', '0', 'm', '{' and '}', so
\* that texts that themselves hold escape sequences, or the braces that
\* format! treats specially in its template, are among the inputs.
Alphabet == {27, 91, 48, 109, 123, 125}

RECURSIVE SeqsOfLen(_)
SeqsOfLen(n) ==
    IF n = 0 THEN {<<>>}
    ELSE {<<b>> \o r : b \in Alphabet, r \in SeqsOfLen(n - 1)}

Texts == UNION {SeqsOfLen(n) : n \in 0..MaxLen}

\* enum Color
Color == {"Red", "Green", "Blue", "Bold"}

VARIABLES
    color,      \* ColorString.color     (the field paint() matches on)
    string,     \* ColorString.string
    colorized,  \* ColorString.colorized
    last,       \* the ColorString method that ran last: "none", "paint", "reset"
    prev,       \* the ColorString method that ran before it
    t,          \* argument of a direct call of a formatting function
    fn,         \* the formatting function called last: "none", "red", ...
    out         \* the String it returned

vars == <<color, string, colorized, last, prev, t, fn, out>>
csVars == <<color, string, colorized, last, prev>>
fmtVars == <<t, fn, out>>

(***************************************************************************)
(* format!(template, s) with one positional argument of type &str: literal *)
(* bytes of the template are copied, "{{" and "}}" yield one brace, and    *)
(* "{}" is replaced by the Display output of s, i.e. the bytes of s        *)
(* unchanged (s is never re-scanned for braces).                           *)
(***************************************************************************)
RECURSIVE Format(_, _)
Format(tpl, s) ==
    IF tpl = <<>> THEN <<>>
    ELSE IF Len(tpl) >= 2 /\ tpl[1] = 123 /\ tpl[2] = 123
         THEN <<123>> \o Format(SubSeq(tpl, 3, Len(tpl)), s)
    ELSE IF Len(tpl) >= 2 /\ tpl[1] = 125 /\ tpl[2] = 125
         THEN <<125>> \o Format(SubSeq(tpl, 3, Len(tpl)), s)
    ELSE IF Len(tpl) >= 2 /\ tpl[1] = 123 /\ tpl[2] = 125
         THEN s \o Format(SubSeq(tpl, 3, Len(tpl)), s)
    ELSE <<tpl[1]>> \o Format(Tail(tpl), s)

\* Mutant: the green code 32 in place of 31.
red_wrongCode(s) == Format(<<27, 91, 51, 50, 109, 123, 125, 27, 91, 48, 109>>, s)

\* format!("\x1b[31m{}\x1b[0m", s)
red(s) == Format(<<27, 91, 51, 49, 109, 123, 125, 27, 91, 48, 109>>, s)

\* format!("\x1b[32m{}\x1b[0m", s)
green(s) == Format(<<27, 91, 51, 50, 109, 123, 125, 27, 91, 48, 109>>, s)

\* format!("\x1b[34m{}\x1b[0m", s)
blue(s) == Format(<<27, 91, 51, 52, 109, 123, 125, 27, 91, 48, 109>>, s)

\* Mutant: the two-digit form "\x1b[01m" of the bold code.
bold_twoDigits(s) == Format(<<27, 91, 48, 49, 109, 123, 125, 27, 91, 48, 109>>, s)

\* format!("\x1b[1m{}\x1b[0m", s)
bold(s) == Format(<<27, 91, 49, 109, 123, 125, 27, 91, 48, 109>>, s)

\* Mutant: the text is returned bare, without the framing reset sequences.
reset_bare(s) == s

\* format!("\x1b[0m{}\x1b[0m", s)
reset(s) == Format(<<27, 91, 48, 109, 123, 125, 27, 91, 48, 109>>, s)

(***************************************************************************)
(* ColorString                                                             *)
(***************************************************************************)

\* ColorString { color: <any variant>, string: <any text>,
\*               colorized: String::new() }
Init ==
    /\ color \in Color
    /\ string \in Texts
    /\ colorized = <<>>
    /\ last = "none"
    /\ prev = "none"
    /\ t = <<>>
    /\ fn = "none"
    /\ out = <<>>

\* Mutant: the Green arm calls red.
ColorString_paint_wrongArm ==
    /\ colorized' = CASE color = "Red"   -> red(string)
                      [] color = "Green" -> red(string)
                      [] color = "Blue"  -> blue(string)
                      [] color = "Bold"  -> bold(string)
    /\ prev' = last
    /\ last' = "paint"
    /\ UNCHANGED <<color, string, fmtVars>>

\* Mutant: the formatter is applied to the previous colorized value.
ColorString_paint_nested ==
    /\ colorized' = CASE color = "Red"   -> red(colorized)
                      [] color = "Green" -> green(colorized)
                      [] color = "Blue"  -> blue(colorized)
                      [] color = "Bold"  -> bold(colorized)
    /\ prev' = last
    /\ last' = "paint"
    /\ UNCHANGED <<color, string, fmtVars>>

\* Mutant: the result is stored into the string field as well.
ColorString_paint_clobber ==
    /\ colorized' = CASE color = "Red"   -> red(string)
                      [] color = "Green" -> green(string)
                      [] color = "Blue"  -> blue(string)
                      [] color = "Bold"  -> bold(string)
    /\ string' = colorized'
    /\ prev' = last
    /\ last' = "paint"
    /\ UNCHANGED <<color, fmtVars>>

\* pub fn paint(&mut self)
ColorString_paint ==
    /\ colorized' = CASE color = "Red"   -> red(string)
                      [] color = "Green" -> green(string)
                      [] color = "Blue"  -> blue(string)
                      [] color = "Bold"  -> bold(string)
    /\ prev' = last
    /\ last' = "paint"
    /\ UNCHANGED <<color, string, fmtVars>>

\* Mutant: colorized is set to the bare string, as the doc comment says.
ColorString_reset_plain ==
    /\ colorized' = string
    /\ prev' = last
    /\ last' = "reset"
    /\ UNCHANGED <<color, string, fmtVars>>

\* Mutant: the reset formatter is applied to the previous colorized value.
ColorString_reset_fromColorized ==
    /\ colorized' = reset(colorized)
    /\ prev' = last
    /\ last' = "reset"
    /\ UNCHANGED <<color, string, fmtVars>>

\* Mutant: colorized is cleared.
ColorString_reset_clear ==
    /\ colorized' = <<>>
    /\ prev' = last
    /\ last' = "reset"
    /\ UNCHANGED <<color, string, fmtVars>>

\* pub fn reset(&mut self)
ColorString_reset ==
    /\ colorized' = reset(string)
    /\ prev' = last
    /\ last' = "reset"
    /\ UNCHANGED <<color, string, fmtVars>>

Next ==
    \/ ColorString_paint
    \/ ColorString_reset

Spec == Init /\ [][Next]_vars

(***************************************************************************)
(* Direct calls of the formatting functions on an arbitrary text.          *)
(***************************************************************************)
InitFmt ==
    /\ t \in Texts
    /\ fn = "none"
    /\ out = <<>>
    /\ color = "Red"
    /\ string = <<>>
    /\ colorized = <<>>
    /\ last = "none"
    /\ prev = "none"

CallRed   == fn' = "red"   /\ out' = red(t)   /\ UNCHANGED <<t, csVars>>

CallGreen == fn' = "green" /\ out' = green(t) /\ UNCHANGED <<t, csVars>>

CallBlue  == fn' = "blue"  /\ out' = blue(t)  /\ UNCHANGED <<t, csVars>>

CallBold  == fn' = "bold"  /\ out' = bold(t)  /\ UNCHANGED <<t, csVars>>

CallReset == fn' = "reset" /\ out' = reset(t) /\ UNCHANGED <<t, csVars>>

NextFmt ==
    \/ CallRed
    \/ CallGreen
    \/ CallBlue
    \/ CallBold
    \/ CallReset

SpecFmt == InitFmt /\ [][NextFmt]_vars

(***************************************************************************)
(* Properties                                                              *)
(***************************************************************************)

\* C1: every style formatter returns exactly its style prefix, the input
\* unchanged and the reset suffix: red is ESC[31m t ESC[0m, green is
\* ESC[32m t ESC[0m, blue is ESC[34m t ESC[0m, bold is ESC[1m t ESC[0m,
\* for every input text t, the empty text included.
C1_StyleFormattersExact ==
    /\ fn = "red"   => out = <<27, 91, 51, 49, 109>> \o t \o <<27, 91, 48, 109>>
    /\ fn = "green" => out = <<27, 91, 51, 50, 109>> \o t \o <<27, 91, 48, 109>>
    /\ fn = "blue"  => out = <<27, 91, 51, 52, 109>> \o t \o <<27, 91, 48, 109>>
    /\ fn = "bold"  => out = <<27, 91, 49, 109>> \o t \o <<27, 91, 48, 109>>

\* red("") has been called and returned ESC[31m ESC[0m.
C1_Witness ==
    fn = "red" /\ t = <<>> /\ out = <<27, 91, 51, 49, 109, 27, 91, 48, 109>>

\* C2: the reset formatter returns ESC[0m t ESC[0m for every input text t,
\* which is never the bare input t.
C2_ResetFormatterExact ==
    fn = "reset" =>
        /\ out = <<27, 91, 48, 109>> \o t \o <<27, 91, 48, 109>>
        /\ out # t

\* reset has been called on a text that itself holds an escape character.
C2_Witness ==
    fn = "reset" /\ Len(t) = 2 /\ t[1] = 27 /\ Len(out) = 10

\* C3: right after paint() the colorized field is the formatter of the
\* ColorString's own variant applied to its source text.
C3_PaintDispatch ==
    last = "paint" =>
        /\ color = "Red"   => colorized = red(string)
        /\ color = "Green" => colorized = green(string)
        /\ color = "Blue"  => colorized = blue(string)
        /\ color = "Bold"  => colorized = bold(string)

\* paint() has run on a Green ColorString with a non-empty source text.
C3_Witness ==
    last = "paint" /\ color = "Green" /\ string # <<>> /\ colorized = green(string)

\* C4: after paint() followed by reset(), the colorized field equals the
\* string field (the bare source text).
C4_ResetRestoresString ==
    (prev = "paint" /\ last = "reset") => colorized = string

C6_ResetIdempotent ==
    [][(last = "reset" /\ last' = "reset") => colorized' = colorized]_vars

\* reset() has run twice in succession on a non-empty source text.
C6_Witness ==
    prev = "reset" /\ last = "reset" /\ string # <<>>

\* C7: each formatter lengthens its input by a fixed number of bytes: 9 for
\* red, green and blue, 8 for bold and for reset.
C7_AddedLength ==
    /\ fn \in {"red", "green", "blue"} => Len(out) = Len(t) + 9
    /\ fn \in {"bold", "reset"} => Len(out) = Len(t) + 8

\* bold has been called on a non-empty text.
C7_Witness ==
    fn = "bold" /\ Len(t) >= 1 /\ Len(out) = Len(t) + 8

C9_FrameColorAndString ==
    [][color' = color /\ string' = string]_vars

\* Both operations have run on a Bold ColorString with a source text of two
\* bytes.
C9_Witness ==
    prev = "paint" /\ last = "paint" /\ color = "Bold" /\ Len(string) = 2

====
